---------------------------- MODULE Spec2Model ----------------------------
(***************************************************************************)
(* A model of the lsp-rs language-server endpoint: the framing buffer       *)
(* (rpc::BufferedReader, rpc::encode_message, rpc::decode_message), the     *)
(* document model (editor::FileState, editor::EditorState), the dispatcher  *)
(* (lsp::handle_message) and the read loop of main.                         *)
(*                                                                          *)
(* A Rust String is a sequence of characters; every character is a one-     *)
(* character TLA+ string, except the two non-ASCII characters of the model: *)
(* "U+E9" (two UTF-8 bytes) and "U+FFFD" (the replacement character, three  *)
(* UTF-8 bytes).  A byte is a string too: an ASCII byte is the character it *)
(* encodes, the others are "xC3", "xA9", "xEF", "xBF", "xBD".               *)
(***************************************************************************)
EXTENDS Integers, Sequences, FiniteSets, TLC

VARIABLES
    overflow_checks, \* the build profile: TRUE for a debug build (overflow panics)
    stdin,           \* the bytes of the input source that were not read yet
    data,            \* BufferedReader.data
    files,           \* EditorState.files: a function from the stored URIs to FileState
    stdout,          \* the responses written to the output sink, in order
    pc,              \* "run", "done" (the read loop ended) or "panic" (the process aborted)
    ret,             \* ghost: the last operation, its arguments and what it returned
    whole,           \* ghost: the input the run started with
    nwrites,         \* ghost: the number of write calls of the BufferedReader harness
    npops,           \* ghost: the number of pop_message calls of the BufferedReader harness
    pops,            \* ghost: the last two pop_message calls of the BufferedReader harness
    nhandled,        \* ghost: the number of handle_message calls so far
    accepted,        \* ghost: for every URI, the last text sent for it that validated
    dispatched       \* ghost: the payloads handed to handle_message, in order

vars == <<overflow_checks, stdin, data, files, stdout, pc, ret, whole, nwrites,
          npops, pops, nhandled, accepted, dispatched>>

\* The variables of the framing buffer and of its caller.
readerVars == <<stdin, data, whole, nwrites, npops, pops>>

\* The variables of the editor state and of the dispatcher.
editorVars == <<files, stdout, nhandled, accepted, dispatched>>

-----------------------------------------------------------------------------
(* Bounds *)

\* The width of usize in bits (64 on the real targets; TLC's integers are 32 bits wide).
UsizeBits == 8
\* The longest payload of the exhaustive payload set.
MaxPayloadLen == 2
\* The number of write calls the BufferedReader harness makes.
MaxWrites == 2
\* The number of pop_message calls the BufferedReader harness makes.
MaxPops == 2
\* The number of messages the dispatcher harness hands to handle_message.
MaxMsgs == 2
\* The longest content_changes list of a didChange notification.
MaxChanges == 2
\* The largest number of framed messages in an input of the read loop.
MaxStreamMsgs == 2
\* The longest text of the exhaustive set of document texts.
MaxTextLen == 5

UsizeMax == 2^UsizeBits - 1

-----------------------------------------------------------------------------
(* Strings and bytes *)

Min(a, b) == IF a < b THEN a ELSE b

SeqsUpTo(S, n) == UNION {[1..k -> S] : k \in 0..n}

\* char::len_utf8
LenUtf8(c) == IF c = "U+FFFD" THEN 3 ELSE IF c = "U+E9" THEN 2 ELSE 1

\* str::len: the length of a string in bytes
RECURSIVE StrLen(_)
StrLen(s) == IF s = <<>> THEN 0 ELSE LenUtf8(Head(s)) + StrLen(Tail(s))

\* The UTF-8 encoding of one character.
CharBytes(c) ==
    IF c = "U+FFFD" THEN <<"xEF", "xBF", "xBD">>
    ELSE IF c = "U+E9" THEN <<"xC3", "xA9">>
    ELSE <<c>>

\* str::as_bytes
RECURSIVE AsBytes(_)
AsBytes(s) == IF s = <<>> THEN <<>> ELSE CharBytes(Head(s)) \o AsBytes(Tail(s))

NonAsciiBytes == {"xC3", "xA9", "xEF", "xBF", "xBD"}

\* String::from_utf8_lossy: every maximal invalid part becomes one U+FFFD.
RECURSIVE FromUtf8Lossy(_)
FromUtf8Lossy(b) ==
    IF b = <<>> THEN <<>>
    ELSE IF Head(b) \notin NonAsciiBytes THEN <<Head(b)>> \o FromUtf8Lossy(Tail(b))
    ELSE IF Len(b) >= 2 /\ b[1] = "xC3" /\ b[2] = "xA9"
        THEN <<"U+E9">> \o FromUtf8Lossy(SubSeq(b, 3, Len(b)))
    ELSE IF Len(b) >= 3 /\ b[1] = "xEF" /\ b[2] = "xBF" /\ b[3] = "xBD"
        THEN <<"U+FFFD">> \o FromUtf8Lossy(SubSeq(b, 4, Len(b)))
    ELSE IF Len(b) >= 2 /\ b[1] = "xEF" /\ b[2] = "xBF"
        THEN <<"U+FFFD">> \o FromUtf8Lossy(SubSeq(b, 3, Len(b)))
    ELSE <<"U+FFFD">> \o FromUtf8Lossy(Tail(b))

\* str::is_char_boundary: byte offset n falls between two characters of s.
IsCharBoundary(s, n) == \E k \in 0..Len(s) : StrLen(SubSeq(s, 1, k)) = n

\* &s[..n] for a byte offset n on a character boundary
SliceTo(s, n) ==
    SubSeq(s, 1, CHOOSE k \in 0..Len(s) : StrLen(SubSeq(s, 1, k)) = n)

\* str::starts_with
StartsWith(s, p) == Len(s) >= Len(p) /\ SubSeq(s, 1, Len(p)) = p

\* str::trim_start_matches: the prefix is removed as often as it repeats.
RECURSIVE TrimStartMatches(_, _)
TrimStartMatches(s, p) ==
    IF StartsWith(s, p) THEN TrimStartMatches(SubSeq(s, Len(p) + 1, Len(s)), p) ELSE s

Digits == <<"0", "1", "2", "3", "4", "5", "6", "7", "8", "9">>

DigitValue(c) == (CHOOSE i \in 1..10 : Digits[i] = c) - 1

IsDigit(c) == \E i \in 1..10 : Digits[i] = c

RECURSIVE DecimalValue(_)
DecimalValue(s) ==
    IF s = <<>> THEN 0
    ELSE Min(UsizeMax + 1, 10 * DecimalValue(SubSeq(s, 1, Len(s) - 1)) + DigitValue(s[Len(s)]))

ParseFailed == -1

\* str::parse::<usize>: an optional "+", then one or more decimal digits that fit usize.
ParseUsize(s) ==
    LET d == IF s # <<>> /\ Head(s) = "+" THEN Tail(s) ELSE s
    IN  IF d = <<>> \/ \E i \in 1..Len(d) : ~IsDigit(d[i]) THEN ParseFailed
        ELSE IF DecimalValue(d) > UsizeMax THEN ParseFailed
        ELSE DecimalValue(d)

\* The decimal rendering of a usize by format!("{}", n).
RECURSIVE FormatUsize(_)
FormatUsize(n) ==
    IF n < 10 THEN <<Digits[n + 1]>> ELSE FormatUsize(n \div 10) \o <<Digits[(n % 10) + 1]>>

-----------------------------------------------------------------------------
(* rpc: the framing *)

ContentLengthPrefix ==
    <<"C", "o", "n", "t", "e", "n", "t", "-", "L", "e", "n", "g", "t", "h", ":", " ">>

Separator == <<"\r", "\n", "\r", "\n">>

\* encode_message, reading the length as the number of characters.
encode_message_chars(message) ==
    ContentLengthPrefix \o FormatUsize(Len(message)) \o Separator \o message

encode_message(message) ==
    LET n == StrLen(message)
    IN  ContentLengthPrefix \o FormatUsize(n) \o Separator \o message

\* The index of the first "\r\n\r\n" of s, or 0 (str::split_once splits there).
FindSeparator(s) ==
    LET hits == {i \in 1..(Len(s) - 3) : SubSeq(s, i, i + 3) = Separator}
    IN  IF hits = {} THEN 0 ELSE CHOOSE i \in hits : \A j \in hits : i <= j

NoContent == <<>>

\* decode_message whose total_length counts the declared content only.
decode_message_declared(message) ==
    LET i == FindSeparator(message)
    IN  IF i = 0
        THEN [kind |-> "err", content |-> NoContent, total_len |-> 0]
        ELSE
            LET header == SubSeq(message, 1, i - 1)
                content == SubSeq(message, i + 4, Len(message))
                content_length == ParseUsize(TrimStartMatches(header, ContentLengthPrefix))
                total_length == StrLen(header) + 4 + content_length
            IN  IF ~StartsWith(header, ContentLengthPrefix)
                THEN [kind |-> "err", content |-> NoContent, total_len |-> 0]
                ELSE IF content_length = ParseFailed
                THEN [kind |-> "err", content |-> NoContent, total_len |-> 0]
                ELSE IF content_length > StrLen(content)
                THEN [kind |-> "none", content |-> NoContent, total_len |-> 0]
                ELSE IF ~IsCharBoundary(content, content_length)
                THEN [kind |-> "panic", content |-> NoContent, total_len |-> 0]
                ELSE [kind |-> "some", content |-> SliceTo(content, content_length),
                      total_len |-> total_length]

\* decode_message: Err, Ok(None), Ok(Some((content, total_length))), or the panic
\* of slicing content inside a character.
decode_message(message) ==
    LET i == FindSeparator(message)
    IN  IF i = 0
        THEN [kind |-> "err", content |-> NoContent, total_len |-> 0]
        ELSE
            LET header == SubSeq(message, 1, i - 1)
                content == SubSeq(message, i + 4, Len(message))
                content_length == ParseUsize(TrimStartMatches(header, ContentLengthPrefix))
                total_length == StrLen(header) + 4 + StrLen(content)
            IN  IF ~StartsWith(header, ContentLengthPrefix)
                THEN [kind |-> "err", content |-> NoContent, total_len |-> 0]
                ELSE IF content_length = ParseFailed
                THEN [kind |-> "err", content |-> NoContent, total_len |-> 0]
                ELSE IF content_length > StrLen(content)
                THEN [kind |-> "none", content |-> NoContent, total_len |-> 0]
                ELSE IF ~IsCharBoundary(content, content_length)
                THEN [kind |-> "panic", content |-> NoContent, total_len |-> 0]
                ELSE [kind |-> "some", content |-> SliceTo(content, content_length),
                      total_len |-> total_length]

\* Iterator::skip(n) over the characters of s, collected
SkipChars(s, n) == SubSeq(s, n + 1, Len(s))

\* BufferedReader::write
BufferedReader_write(d, buffer) == d \o FromUtf8Lossy(buffer)

\* BufferedReader::pop_message that drops the buffer when no message is complete.
pop_message_clears(d) ==
    LET r == decode_message(d)
    IN  IF r.kind = "some"
        THEN [kind |-> "some", content |-> r.content, data |-> SkipChars(d, r.total_len)]
        ELSE [kind |-> r.kind, content |-> NoContent,
              data |-> IF r.kind = "none" THEN <<>> ELSE d]

\* BufferedReader::pop_message that discards a buffer it cannot parse.
pop_message_discards(d) ==
    LET r == decode_message(d)
    IN  IF r.kind = "some"
        THEN [kind |-> "some", content |-> r.content, data |-> SkipChars(d, r.total_len)]
        ELSE [kind |-> r.kind, content |-> NoContent,
              data |-> IF r.kind = "err" THEN <<>> ELSE d]

\* BufferedReader::pop_message: what it returns and the data it leaves.
pop_message(d) ==
    LET r == decode_message(d)
    IN  IF r.kind = "some"
        THEN [kind |-> "some", content |-> r.content, data |-> SkipChars(d, r.total_len)]
        ELSE [kind |-> r.kind, content |-> NoContent, data |-> d]

-----------------------------------------------------------------------------
(* editor: the document model *)

\* The index of the first "\n" of s, or 0.
FindNewline(s) ==
    LET hits == {i \in 1..Len(s) : s[i] = "\n"}
    IN  IF hits = {} THEN 0 ELSE CHOOSE i \in hits : \A j \in hits : i <= j

\* A line without the "\r" that preceded its "\n".
StripCr(line) ==
    IF line # <<>> /\ line[Len(line)] = "\r" THEN SubSeq(line, 1, Len(line) - 1) ELSE line

\* str::lines, collected: the text is cut after every "\n"; a line loses its
\* "\n" and a "\r" before it; nothing follows a final "\n". (The texts of this
\* model hold no "\r", on whose handling at the end of the text the versions
\* of the standard library differ.)
RECURSIVE Lines(_)
Lines(s) ==
    IF s = <<>> THEN <<>>
    ELSE LET i == FindNewline(s)
         IN  IF i = 0 THEN <<s>>
             ELSE <<StripCr(SubSeq(s, 1, i - 1))>> \o Lines(SubSeq(s, i + 1, Len(s)))

\* line.chars().skip(1).step_by(2): the characters at the odd offsets 1, 3, ...
OddOffsetChars(line) == {line[i] : i \in {j \in 1..Len(line) : j % 2 = 0}}

\* line.chars().step_by(2), collected: the characters at the even offsets 0, 2, ...
EvenOffsetChars(line) == [k \in 1..((Len(line) + 1) \div 2) |-> line[2 * k - 1]]

NoFileState == [some |-> FALSE, tree |-> <<>>, char_count |-> 0]

\* The width check of FileState::new with the last line held to the exact width too.
WidthRejected_exact(d, line_count, line) == StrLen(line) # 2^(d + 1) - 1

\* The first condition of the loop of FileState::new: the line at depth d
\* (counted from 0) has the wrong width. (2^(d+1) cannot overflow: a text with
\* a line at depth UsizeBits - 1 is longer than any text of the model, as it is
\* longer than any text a 64-bit target can hold.)
WidthRejected(d, line_count, line) ==
    LET n == 2^(d + 1) - 1
    IN  \/ (d # line_count - 1 /\ StrLen(line) # n)
        \/ (d = line_count - 1 /\ StrLen(line) > n)

\* The loop of FileState::new from depth d on, with the labels v pushed so far.
RECURSIVE FileState_loop(_, _, _, _)
FileState_loop(lines, d, v, char_count) ==
    IF d >= Len(lines)
    THEN [some |-> TRUE, tree |-> v, char_count |-> char_count]
    ELSE LET line == lines[d + 1]
         IN  IF WidthRejected(d, Len(lines), line) THEN NoFileState
             ELSE IF \E c \in OddOffsetChars(line) : c # " " THEN NoFileState
             ELSE FileState_loop(lines, d + 1, v \o EvenOffsetChars(line), char_count)

\* FileState::new: None, or Some(FileState {tree, char_count}).
FileState_new(file_content) ==
    FileState_loop(Lines(file_content), 0, <<>>, StrLen(file_content))

\* FileState::get_char_count
get_char_count(fs) == fs.char_count

NoLabel == "None"

\* Vec::get: Some(label) or None
VecGet(tree, index) == IF index + 1 \in DOMAIN tree THEN tree[index + 1] ELSE NoLabel

\* FileState::get
FileState_get(fs, index) == VecGet(fs.tree, index)

\* A lookup whose index computation aborted in a build with overflow checks.
NavPanic == "panic"

\* FileState::left_child: tree.get(2 * index + 1), whose arithmetic is usize
\* arithmetic: it panics on overflow in a build with overflow checks and wraps
\* in one without.
FileState_left_child(fs, index, checks) ==
    LET m == 2 * index + 1
    IN  IF m > UsizeMax THEN (IF checks THEN NavPanic ELSE VecGet(fs.tree, m % (UsizeMax + 1)))
        ELSE VecGet(fs.tree, m)

\* FileState::right_child: tree.get(2 * index + 2)
FileState_right_child(fs, index, checks) ==
    LET m == 2 * index + 2
    IN  IF m > UsizeMax THEN (IF checks THEN NavPanic ELSE VecGet(fs.tree, m % (UsizeMax + 1)))
        ELSE VecGet(fs.tree, m)

\* EditorState::modify_file that stores whatever FileState::new returned.
modify_file_unchecked(fls, file_name, file_content) ==
    LET new_file_state == FileState_new(file_content)
    IN  [ok |-> new_file_state.some,
         files |-> [u \in DOMAIN fls \cup {file_name} |->
                      IF u = file_name
                      THEN [tree |-> new_file_state.tree,
                            char_count |-> new_file_state.char_count]
                      ELSE fls[u]]]

\* EditorState::modify_file that forgets the document of a name whose new text fails.
modify_file_forgetful(fls, file_name, file_content) ==
    LET new_file_state == FileState_new(file_content)
    IN  IF new_file_state.some
        THEN [ok |-> TRUE,
              files |-> [u \in DOMAIN fls \cup {file_name} |->
                           IF u = file_name
                           THEN [tree |-> new_file_state.tree,
                                 char_count |-> new_file_state.char_count]
                           ELSE fls[u]]]
        ELSE [ok |-> FALSE, files |-> [u \in DOMAIN fls \ {file_name} |-> fls[u]]]

\* EditorState::modify_file: what it returns and the map it leaves.
modify_file(fls, file_name, file_content) ==
    LET new_file_state == FileState_new(file_content)
    IN  IF new_file_state.some
        THEN [ok |-> TRUE,
              files |-> [u \in DOMAIN fls \cup {file_name} |->
                           IF u = file_name
                           THEN [tree |-> new_file_state.tree,
                                 char_count |-> new_file_state.char_count]
                           ELSE fls[u]]]
        ELSE [ok |-> FALSE, files |-> fls]

\* EditorState::new: no document
NoFiles == <<>>

\* EditorState::get_file_state: is there a document for the name
has_file_state(fls, file_name) == file_name \in DOMAIN fls

\* FileState::parent that answers only for an index that holds a node.
FileState_parent_existing(fs, index) ==
    IF index = 0 \/ VecGet(fs.tree, index) = NoLabel THEN NoLabel
    ELSE VecGet(fs.tree, (index - 1) \div 2)

\* FileState::parent
FileState_parent(fs, index) ==
    IF index = 0 THEN NoLabel ELSE VecGet(fs.tree, (index - 1) \div 2)

-----------------------------------------------------------------------------
(* lsp: the messages and the dispatcher *)

(***************************************************************************)
(* A payload as serde_json sees it: whether it is JSON at all (valid),      *)
(* which members of the envelope it has (has), whether its params hold      *)
(* every member the schema of its method requires, with the required types  *)
(* (params_ok), and the values of the members the handlers read.            *)
(***************************************************************************)
JsonValue(method, has, params_ok, id, uri, text, changes, line, character) ==
    [valid |-> TRUE, has |-> has, params_ok |-> params_ok, method |-> method,
     id |-> id, uri |-> uri, text |-> text, changes |-> changes,
     line |-> line, character |-> character]

NotJson ==
    [valid |-> FALSE, has |-> {}, params_ok |-> FALSE, method |-> "",
     id |-> 0, uri |-> "", text |-> <<>>, changes |-> <<>>,
     line |-> 0, character |-> 0]

Envelope == {"jsonrpc", "method", "id", "params"}

\* message_to_object::<Notification>: jsonrpc and method are required.
DecodesAsNotification(json) == json.valid /\ {"jsonrpc", "method"} \subseteq json.has

\* json_from_string::<InitializeRequest> and ::<HoverRequest>: id and params too.
DecodesAsRequest(json) ==
    DecodesAsNotification(json) /\ {"id", "params"} \subseteq json.has /\ json.params_ok

\* The decoding of a document notification that does not check its params.
DecodesAsDocNotification_lax(json) == DecodesAsNotification(json)

\* json_from_string::<DidOpenTextDocumentNotification> and
\* ::<TextDocumentDidChangeNotification>: params are required.
DecodesAsDocNotification(json) ==
    DecodesAsNotification(json) /\ "params" \in json.has /\ json.params_ok

\* InitializeResponse::new(id, "LSP-Server", "0")
InitializeResponse(id) ==
    [jsonrpc |-> "2.0", id |-> id,
     result |-> [capabilities |-> [textDocumentSync |-> 1, hoverProvider |-> TRUE],
                 serverInfo |-> [name |-> "LSP-Server", version |-> "0"]]]

\* HoverResponse::new that does not copy the id of the request.
HoverResponse_fixed_id(id, response_str) ==
    [jsonrpc |-> "2.0", id |-> 0, result |-> [contents |-> response_str]]

\* HoverResponse::new(id, response_str)
HoverResponse(id, response_str) ==
    [jsonrpc |-> "2.0", id |-> id, result |-> [contents |-> response_str]]

\* format!("Character count: {}", n)
CharacterCountMsg(n) ==
    <<"C", "h", "a", "r", "a", "c", "t", "e", "r", " ", "c", "o", "u", "n", "t", ":", " ">>
        \o FormatUsize(n)

\* format!("Parent: {}", c)
ParentMsg(c) == <<"P", "a", "r", "e", "n", "t", ":", " ", c>>

\* format!("Could not find parent to {} {}", index, parent_index)
CouldNotFindMsg(index, parent_index) ==
    <<"C", "o", "u", "l", "d", " ", "n", "o", "t", " ", "f", "i", "n", "d", " ",
      "p", "a", "r", "e", "n", "t", " ", "t", "o", " ">>
        \o FormatUsize(index) \o <<" ">> \o FormatUsize(parent_index)

\* Arithmetic modulo 2^UsizeBits: a build without overflow checks.
Wrap(x) == x % (UsizeMax + 1)

HoverPanic == <<"panic">>

\* hover_rsp_msg of the hover arm of handle_message, or the panic of an
\* arithmetic overflow in a build with overflow checks.
\*   line as u32 is at least 2^31 for a negative line, so usize::pow(2, line_num)
\*   overflows exactly when line < 0 or line >= UsizeBits, and wraps to 0;
\*   character as usize sign-extends: a negative character is 2^UsizeBits + character.
hover_rsp_msg(fs, line, character, checks) ==
    LET char_num == Wrap(character)
        pow_overflows == line < 0 \/ line >= UsizeBits
        pow == IF pow_overflows THEN 0 ELSE 2^line
        n == Wrap(pow - 1)
        sum == n + char_num \div 2
        index == Wrap(sum)
    IN  IF checks /\ (pow_overflows \/ sum > UsizeMax) THEN HoverPanic
        ELSE IF char_num % 2 # 0 THEN CharacterCountMsg(get_char_count(fs))
        ELSE IF FileState_parent(fs, index) # NoLabel
            THEN ParentMsg(FileState_parent(fs, index))
        ELSE IF checks /\ index = 0 THEN HoverPanic
        ELSE CouldNotFindMsg(index, Wrap(index - 1) \div 2)

\* The loop over content_changes that commits nothing unless every change validates.
RECURSIVE apply_changes_atomic(_, _, _)
apply_changes_atomic(fls, uri, changes) ==
    IF \A i \in 1..Len(changes) : FileState_new(changes[i]).some
    THEN IF changes = <<>> THEN [ok |-> TRUE, files |-> fls]
         ELSE apply_changes_atomic(modify_file(fls, uri, Head(changes)).files, uri,
                                   Tail(changes))
    ELSE [ok |-> FALSE, files |-> fls]

\* The loop over content_changes of the didChange arm: modify_success and the map.
RECURSIVE apply_changes(_, _, _)
apply_changes(fls, uri, changes) ==
    IF changes = <<>> THEN [ok |-> TRUE, files |-> fls]
    ELSE LET m == modify_file(fls, uri, Head(changes))
             rest == apply_changes(m.files, uri, Tail(changes))
         IN  [ok |-> m.ok /\ rest.ok, files |-> rest.files]

Handled(result, fls, out, modify_success) ==
    [result |-> result, files |-> fls, out |-> out, modify_success |-> modify_success]

\* handle_message whose hover arm returns Ok(()) when the URI has no document.
handle_message_hover_silent(json, fls, checks) ==
    IF ~DecodesAsNotification(json) THEN Handled("err", fls, <<>>, FALSE)
    ELSE IF json.method = "initialize"
    THEN IF DecodesAsRequest(json)
         THEN Handled("ok", fls, <<InitializeResponse(json.id)>>, FALSE)
         ELSE Handled("err", fls, <<>>, FALSE)
    ELSE IF json.method = "textDocument/didOpen"
    THEN IF DecodesAsDocNotification(json)
         THEN LET m == modify_file(fls, json.uri, json.text)
              IN  Handled("ok", m.files, <<>>, m.ok)
         ELSE Handled("err", fls, <<>>, FALSE)
    ELSE IF json.method = "textDocument/didChange"
    THEN IF DecodesAsDocNotification(json)
         THEN LET m == apply_changes(fls, json.uri, json.changes)
              IN  Handled("ok", m.files, <<>>, m.ok)
         ELSE Handled("err", fls, <<>>, FALSE)
    ELSE IF json.method = "textDocument/hover"
    THEN IF DecodesAsRequest(json)
         THEN IF ~has_file_state(fls, json.uri) THEN Handled("ok", fls, <<>>, FALSE)
              ELSE LET msg == hover_rsp_msg(fls[json.uri], json.line, json.character,
                                            checks)
                   IN  IF msg = HoverPanic THEN Handled("panic", fls, <<>>, FALSE)
                       ELSE Handled("ok", fls, <<HoverResponse(json.id, msg)>>, FALSE)
         ELSE Handled("err", fls, <<>>, FALSE)
    ELSE Handled("ok", fls, <<>>, FALSE)

\* handle_message: Ok(()), Err(MsgParseError) or a panic; the map it leaves; what
\* it wrote to stdout; and modify_success where it computed one. (The logger and
\* the output sink never fail: their failures are outside the core.)
handle_message(json, fls, checks) ==
    IF ~DecodesAsNotification(json) THEN Handled("err", fls, <<>>, FALSE)
    ELSE IF json.method = "initialize"
    THEN IF DecodesAsRequest(json)
         THEN Handled("ok", fls, <<InitializeResponse(json.id)>>, FALSE)
         ELSE Handled("err", fls, <<>>, FALSE)
    ELSE IF json.method = "textDocument/didOpen"
    THEN IF DecodesAsDocNotification(json)
         THEN LET m == modify_file(fls, json.uri, json.text)
              IN  Handled("ok", m.files, <<>>, m.ok)
         ELSE Handled("err", fls, <<>>, FALSE)
    ELSE IF json.method = "textDocument/didChange"
    THEN IF DecodesAsDocNotification(json)
         THEN LET m == apply_changes(fls, json.uri, json.changes)
              IN  Handled("ok", m.files, <<>>, m.ok)
         ELSE Handled("err", fls, <<>>, FALSE)
    ELSE IF json.method = "textDocument/hover"
    THEN IF DecodesAsRequest(json)
         THEN IF ~has_file_state(fls, json.uri) THEN Handled("err", fls, <<>>, FALSE)
              ELSE LET msg == hover_rsp_msg(fls[json.uri], json.line, json.character,
                                            checks)
                   IN  IF msg = HoverPanic THEN Handled("panic", fls, <<>>, FALSE)
                       ELSE Handled("ok", fls, <<HoverResponse(json.id, msg)>>, FALSE)
         ELSE Handled("err", fls, <<>>, FALSE)
    ELSE Handled("ok", fls, <<>>, FALSE)

-----------------------------------------------------------------------------
(* The BufferedReader on its own: a caller writes an input in chunks and    *)
(* calls pop_message whenever it likes.                                     *)

PayloadChars == {"a", "U+E9", "\r", "\n"}

\* The payloads of the framing checks: every short string, and one that holds the separator.
Payloads == SeqsUpTo(PayloadChars, MaxPayloadLen) \cup {Separator}

PipelinedPayloads == {<<"a">>, <<"U+E9">>}

\* Buffers whose header is not the header encode_message writes.
OddFrames ==
    {<<"A", "B", "C", " ">> \o Separator \o encode_message(<<"a">>),
     ContentLengthPrefix \o ContentLengthPrefix \o <<"1">> \o Separator \o <<"a">>,
     ContentLengthPrefix \o <<"+", "1">> \o Separator \o <<"a">>,
     ContentLengthPrefix \o <<"x">> \o Separator \o encode_message(<<"a">>),
     ContentLengthPrefix \o <<"3">> \o Separator \o <<"a", "a">>}

ReaderInputs ==
    {AsBytes(encode_message(p)) : p \in Payloads}
    \cup {AsBytes(encode_message(p) \o encode_message(q)) :
            p \in PipelinedPayloads, q \in PipelinedPayloads}
    \cup {AsBytes(s) : s \in OddFrames}

InitReader ==
    /\ overflow_checks \in BOOLEAN
    /\ stdin \in ReaderInputs
    /\ whole = stdin
    /\ data = <<>>
    /\ files = NoFiles
    /\ stdout = <<>>
    /\ pc = "run"
    /\ ret = [op |-> "new", kind |-> "", content |-> NoContent, before |-> <<>>]
    /\ nwrites = 0
    /\ npops = 0
    /\ pops = <<>>
    /\ nhandled = 0
    /\ accepted = NoFiles
    /\ dispatched = <<>>

\* buff_reader.write(&bytes[..n]) with the next n bytes of the input
ReaderWrite(n) ==
    /\ pc = "run"
    /\ nwrites < MaxWrites
    /\ n \in 1..Len(stdin)
    /\ data' = BufferedReader_write(data, SubSeq(stdin, 1, n))
    /\ stdin' = SubSeq(stdin, n + 1, Len(stdin))
    /\ nwrites' = nwrites + 1
    /\ ret' = [op |-> "write", kind |-> "", content |-> NoContent, before |-> <<>>]
    /\ UNCHANGED <<overflow_checks, pc, whole, npops, pops, editorVars>>

\* buff_reader.pop_message()
ReaderPop ==
    /\ pc = "run"
    /\ npops < MaxPops
    /\ LET r == pop_message(data)
       IN  /\ data' = r.data
           /\ pc' = IF r.kind = "panic" THEN "panic" ELSE "run"
           /\ ret' = [op |-> "pop", kind |-> r.kind, content |-> r.content,
                      before |-> data]
    /\ npops' = npops + 1
    /\ LET r == pop_message(data)
           this == [kind |-> r.kind, content |-> r.content, before |-> data,
                    after |-> r.data]
       IN  pops' = IF pops = <<>> THEN <<this>> ELSE <<pops[Len(pops)], this>>
    /\ UNCHANGED <<overflow_checks, stdin, whole, nwrites, editorVars>>

NextReader ==
    \/ \E n \in 1..Len(stdin) : ReaderWrite(n)
    \/ ReaderPop

SpecReader == InitReader /\ [][NextReader]_vars

-----------------------------------------------------------------------------
(* Framing claims *)

\* The header of a buffer that holds a separator.
HeaderOf(s) == SubSeq(s, 1, FindSeparator(s) - 1)

\* C1: after every pop_message that returns a payload, the buffer holds exactly
\* the bytes that followed the consumed message (header, separator, payload):
\* nothing after the message is dropped, nothing is duplicated.
C1_PopKeepsFollowingBytes ==
    (ret.op = "pop" /\ ret.kind = "some")
        => ret.before = HeaderOf(ret.before) \o Separator \o ret.content \o data

\* C2: writing encode_message(p) into an empty BufferedReader in one call and
\* popping returns exactly p and leaves the buffer empty, for every payload p.
C2_FramingRoundTrip ==
    (nwrites = 1 /\ stdin = <<>> /\ npops = 1 /\ ret.op = "pop")
        => \A p \in Payloads :
            whole = AsBytes(encode_message(p))
                => (ret.kind = "some" /\ ret.content = p /\ data = <<>>)

\* A payload with a two-byte character and a line break came back from the round trip.
C2_Witness ==
    /\ whole = AsBytes(encode_message(<<"U+E9", "\n">>))
    /\ nwrites = 1 /\ stdin = <<>>
    /\ npops = 1 /\ ret.op = "pop"
    /\ ret.content = <<"U+E9", "\n">>

\* C3: for an encoded message written in any number of non-empty chunks, the
\* first pop after the last chunk returns what it returns when the whole
\* message is written in one call.
C3_ChunkingInvariance ==
    (stdin = <<>> /\ npops = 1 /\ ret.op = "pop")
        => \A p \in Payloads :
            whole = AsBytes(encode_message(p))
                => LET one == pop_message(BufferedReader_write(<<>>, whole))
                   IN  ret.kind = one.kind /\ ret.content = one.content

\* What follows the first separator of a buffer that holds one.
BodyOf(s) == SubSeq(s, FindSeparator(s) + 4, Len(s))

\* What follows "Content-Length: " in the header of a buffer.
LengthFieldOf(s) == SubSeq(HeaderOf(s), Len(ContentLengthPrefix) + 1, Len(HeaderOf(s)))

\* One or more decimal digits.
IsDecimal(s) == s # <<>> /\ \A i \in 1..Len(s) : IsDigit(s[i])

\* The buffer holds a separator after a header "Content-Length: " and a decimal
\* number that fits usize.
HasWellFormedHeader(s) ==
    /\ FindSeparator(s) # 0
    /\ StartsWith(HeaderOf(s), ContentLengthPrefix)
    /\ IsDecimal(LengthFieldOf(s))
    /\ DecimalValue(LengthFieldOf(s)) <= UsizeMax

\* The length a well-formed header declares.
DeclaredLength(s) == DecimalValue(LengthFieldOf(s))

\* C14: a pop_message on a buffer that holds a well-formed header and fewer
\* body bytes than the header declares returns Ok(None) and leaves the buffer
\* exactly as it was; when the next pop finds that buffer extended to the
\* declared number of body bytes, it returns the whole body as the payload.
C14_IncompleteBodyWaits ==
    \A i \in 1..Len(pops) :
        (/\ HasWellFormedHeader(pops[i].before)
         /\ StrLen(BodyOf(pops[i].before)) < DeclaredLength(pops[i].before))
            => /\ pops[i].kind = "none"
               /\ pops[i].after = pops[i].before
               /\ (/\ i < Len(pops)
                    /\ StartsWith(pops[i + 1].before, pops[i].before)
                    /\ StrLen(BodyOf(pops[i + 1].before)) = DeclaredLength(pops[i].before))
                       => /\ pops[i + 1].kind = "some"
                          /\ pops[i + 1].content = BodyOf(pops[i + 1].before)

\* The header and one of three body bytes were popped as incomplete, and the
\* pop after the rest arrived returned the payload.
C14_Witness ==
    /\ Len(pops) = 2
    /\ pops[1].kind = "none"
    /\ pops[1].after = pops[1].before
    /\ BodyOf(pops[1].before) = <<"a">>
    /\ pops[2].kind = "some"
    /\ pops[2].content = <<"a", "U+E9">>

\* C15: a pop_message on a buffer that holds no separator yet (it is empty, or
\* holds a part of a header) returns Ok(None), not an error, and leaves the
\* buffer unchanged.
C15_NoSeparatorIsIncomplete ==
    (ret.op = "pop" /\ FindSeparator(ret.before) = 0)
        => (ret.kind = "none" /\ data = ret.before)

\* A non-negative integer in base 10, with or without a plus sign.
IsBase10Integer(s) == IsDecimal(s) \/ (s # <<>> /\ Head(s) = "+" /\ IsDecimal(Tail(s)))

\* C16: a pop_message on a buffer whose text before the first separator does
\* not start with "Content-Length: ", or continues after that one prefix with
\* something that is not a non-negative base-10 integer, returns an error.
C16_BadHeaderIsMalformed ==
    (/\ ret.op = "pop"
     /\ FindSeparator(ret.before) # 0
     /\ \/ ~StartsWith(HeaderOf(ret.before), ContentLengthPrefix)
        \/ ~IsBase10Integer(LengthFieldOf(ret.before)))
        => ret.kind = "err"

\* C19: a pop_message that returns an error leaves the buffer exactly as it
\* was, and the buffer the next pop works on starts with those same bytes,
\* whatever was written in between.
C19_ErrorLeavesBuffer ==
    \A i \in 1..Len(pops) :
        pops[i].kind = "err"
            => /\ pops[i].after = pops[i].before
               /\ i < Len(pops) => StartsWith(pops[i + 1].before, pops[i].before)

\* A pop failed on a part of a header, and the pop after the rest was written
\* returned the payload that begins with the bytes of the failed attempt.
C19_Witness ==
    /\ Len(pops) = 2
    /\ pops[1].kind = "err"
    /\ pops[1].before # <<>>
    /\ pops[2].kind = "some"
    /\ pops[2].before = encode_message(<<"U+E9", "\n">>)

\* C20: once a pop_message returned an error, the next pop_message does not
\* return a payload, whatever was written to the buffer in between.
C20_MalformedIsFinal ==
    \A i \in 1..Len(pops) :
        (i < Len(pops) /\ pops[i].kind = "err") => pops[i + 1].kind # "some"

-----------------------------------------------------------------------------
(* encode_message on its own: a caller frames a payload.                    *)

\* {"testing":true}
TestingPayload ==
    <<"{", "\"", "t", "e", "s", "t", "i", "n", "g", "\"", ":", "t", "r", "u", "e", "}">>

\* The payloads framed on their own: every short string over the characters of
\* the framing checks and the replacement character, and two longer ones.
EncodePayloads ==
    SeqsUpTo(PayloadChars \cup {"U+FFFD"}, MaxPayloadLen + 1)
    \cup {TestingPayload, TestingPayload \o <<"U+E9">>}

InitEncode ==
    /\ overflow_checks \in BOOLEAN
    /\ stdin = <<>>
    /\ whole = <<>>
    /\ data = <<>>
    /\ files = NoFiles
    /\ stdout = <<>>
    /\ pc = "run"
    /\ ret \in {[op |-> "payload", message |-> p, encoded |-> <<>>] : p \in EncodePayloads}
    /\ nwrites = 0
    /\ npops = 0
    /\ pops = <<>>
    /\ nhandled = 0
    /\ accepted = NoFiles
    /\ dispatched = <<>>

\* encode_message(message)
Encode ==
    /\ ret.op = "payload"
    /\ ret' = [op |-> "encode_message", message |-> ret.message,
               encoded |-> encode_message(ret.message)]
    /\ UNCHANGED <<overflow_checks, pc, readerVars, editorVars>>

NextEncode == Encode

SpecEncode == InitEncode /\ [][NextEncode]_vars

\* C17: encode_message(p) starts with "Content-Length: ", continues with the
\* number of bytes of p (not of characters) in decimal without leading zeros,
\* then the separator, then p, and holds nothing else.
C17_EncodeFormat ==
    ret.op = "encode_message" =>
        LET e == ret.encoded
            field == LengthFieldOf(e)
        IN  /\ StartsWith(e, ContentLengthPrefix)
            /\ FindSeparator(e) # 0
            /\ IsDecimal(field)
            /\ Len(field) > 1 => field[1] # "0"
            /\ DecimalValue(field) = Len(AsBytes(ret.message))
            /\ BodyOf(e) = ret.message
            /\ Len(e) = Len(ContentLengthPrefix) + Len(field) + Len(Separator)
                            + Len(ret.message)

\* The 16-byte payload {"testing":true} was framed with Content-Length: 16.
C17_Witness ==
    /\ ret.op = "encode_message"
    /\ ret.message = TestingPayload
    /\ ret.encoded = ContentLengthPrefix \o <<"1", "6">> \o Separator \o TestingPayload

-----------------------------------------------------------------------------
(* FileState::new on its own: a caller builds a document from a text.       *)

TextChars == {"A", "B", " ", "\n", "U+E9"}

\* "A\nB C\nD", the text of test_filestate
TestFilestateText == <<"A", "\n", "B", " ", "C", "\n", "D">>

\* A text whose second line "B  C" is one character too wide.
WideSecondLineText == <<"A", "\n", "B", " ", " ", "C">>

Texts ==
    SeqsUpTo(TextChars, MaxTextLen)
    \cup {TestFilestateText, WideSecondLineText,
          <<"A", "\n", "B", " ", "C", "\n", "D", " ", "E", " ", "F", " ", "G">>,
          <<"A", "\n", "B", " ", "C", "\n", "D", " ", "E", " ", "F", " ", "G", "\n">>,
          <<"A", "\n", "B", " ", "C", "\n", "D", " ", "E", "F", "F", " ", "G">>,
          <<"A", "\n", "B", " ", "C", "\n", "D", " ", "E", " ", "F", " ", "G", " ">>,
          <<"A", "\n", "U+E9", " ", "\n", "B">>}

InitFileState ==
    /\ overflow_checks \in BOOLEAN
    /\ stdin = <<>>
    /\ whole = <<>>
    /\ data = <<>>
    /\ files = NoFiles
    /\ stdout = <<>>
    /\ pc = "run"
    /\ ret \in {[op |-> "text", file_content |-> t, fs |-> NoFileState] : t \in Texts}
    /\ nwrites = 0
    /\ npops = 0
    /\ pops = <<>>
    /\ nhandled = 0
    /\ accepted = NoFiles
    /\ dispatched = <<>>

\* FileState::new(file_content)
NewFileState ==
    /\ ret.op = "text"
    /\ ret' = [op |-> "FileState::new", file_content |-> ret.file_content,
               fs |-> FileState_new(ret.file_content)]
    /\ UNCHANGED <<overflow_checks, pc, readerVars, editorVars>>

\* The indices the lookups are called with: the first ones, and the ones around
\* the point where 2 * index + 1 and 2 * index + 2 stop fitting usize.
NavIndices == 0..7 \cup {UsizeMax \div 2 - 1, UsizeMax \div 2, UsizeMax \div 2 + 1, UsizeMax}

NavMethods == {"get", "left_child", "right_child", "parent"}

\* One lookup on the document (the value ret.fs holds).
Lookup(fs, method, index, checks) ==
    IF method = "get" THEN FileState_get(fs, index)
    ELSE IF method = "left_child" THEN FileState_left_child(fs, index, checks)
    ELSE IF method = "right_child" THEN FileState_right_child(fs, index, checks)
    ELSE FileState_parent(fs, index)

\* filestate.get(index), .left_child(index), .right_child(index) or .parent(index)
\* on a document FileState::new returned.
Navigate(method, index) ==
    /\ pc = "run"
    /\ ret.op # "text"
    /\ ret.fs.some
    /\ method \in NavMethods
    /\ index \in NavIndices
    /\ ret' = [op |-> method, file_content |-> ret.file_content, fs |-> ret.fs,
               index |-> index,
               result |-> Lookup(ret.fs, method, index, overflow_checks)]
    /\ pc' = IF Lookup(ret.fs, method, index, overflow_checks) = NavPanic
             THEN "panic" ELSE "run"
    /\ UNCHANGED <<overflow_checks, readerVars, editorVars>>

NextFileState ==
    \/ NewFileState
    \/ \E method \in NavMethods, index \in NavIndices : Navigate(method, index)

SpecFileState == InitFileState /\ [][NextFileState]_vars

RECURSIVE EvenOffsetCount(_)
EvenOffsetCount(lines) ==
    IF lines = <<>> THEN 0
    ELSE (Len(Head(lines)) + 1) \div 2 + EvenOffsetCount(Tail(lines))

\* C21: in the document FileState::new builds from a text it accepts, the
\* character at line d and even offset c of the text is the node at index
\* 2^d - 1 + c/2 (the index the hover handler computes from line d and
\* character c), and there are as many nodes as characters at even offsets.
C21_LevelOrderAlignment ==
    (ret.op = "FileState::new" /\ ret.fs.some)
        => LET lines == Lines(ret.file_content)
           IN  /\ \A d \in 0..(Len(lines) - 1) :
                      \A c \in 0..(Len(lines[d + 1]) - 1) :
                          c % 2 = 0 =>
                              FileState_get(ret.fs, 2^d - 1 + c \div 2) = lines[d + 1][c + 1]
               /\ Len(ret.fs.tree) = EvenOffsetCount(lines)

\* C22: on every document and for every index i, get(i) is the node at i,
\* left_child(i) is the node at 2i + 1, right_child(i) the node at 2i + 2,
\* parent(0) is absent and parent(i) for i > 0 is the node at (i - 1) / 2 (so
\* parent(2k + 1) = parent(2k + 2) = get(k)); a lookup outside the node
\* sequence returns absent, and no lookup fails.
C22_NavigationConsistency ==
    ret.op \in NavMethods
        => LET i == ret.index
               tree == ret.fs.tree
           IN  /\ ret.result # NavPanic
               /\ ret.op = "get" => ret.result = VecGet(tree, i)
               /\ ret.op = "left_child" => ret.result = VecGet(tree, 2 * i + 1)
               /\ ret.op = "right_child" => ret.result = VecGet(tree, 2 * i + 2)
               /\ (ret.op = "parent" /\ i = 0) => ret.result = NoLabel
               /\ (ret.op = "parent" /\ i > 0) => ret.result = VecGet(tree, (i - 1) \div 2)

-----------------------------------------------------------------------------
(* The dispatcher on its own: a caller hands payloads to handle_message.    *)

Uris == {"u1", "u2"}

Ids == {1, 2}

\* Two texts that validate and two that do not.
DispatchTexts == {<<"A">>, TestFilestateText, WideSecondLineText, <<"U+E9">>}

HoverLines == {-1, 0, 1, 2, UsizeBits}

HoverCharacters == {-2, 0, 1, 2, 3}

InitializeJson(id) ==
    JsonValue("initialize", Envelope, TRUE, id, "", <<>>, <<>>, 0, 0)

DidOpenJson(uri, text) ==
    JsonValue("textDocument/didOpen", Envelope \ {"id"}, TRUE, 0, uri, text, <<>>, 0, 0)

DidChangeJson(uri, changes) ==
    JsonValue("textDocument/didChange", Envelope \ {"id"}, TRUE, 0, uri, <<>>, changes, 0, 0)

HoverJson(id, uri, line, character) ==
    JsonValue("textDocument/hover", Envelope, TRUE, id, uri, <<>>, <<>>, line, character)

OtherJson(method) ==
    JsonValue(method, Envelope \ {"id", "params"}, FALSE, 0, "", <<>>, <<>>, 0, 0)

\* The payload without one member of its envelope.
Without(json, member) == [json EXCEPT !.has = @ \ {member}]

\* The payload with params that do not fit the schema of its method.
BadParams(json) == [json EXCEPT !.params_ok = FALSE]

WellFormedJson ==
    {InitializeJson(id) : id \in Ids}
    \cup {DidOpenJson(uri, text) : uri \in Uris, text \in DispatchTexts}
    \cup {DidChangeJson(uri, changes) :
            uri \in Uris, changes \in SeqsUpTo(DispatchTexts, MaxChanges)}
    \cup {HoverJson(id, uri, line, character) :
            id \in Ids, uri \in Uris, line \in HoverLines, character \in HoverCharacters}
    \cup {OtherJson("shutdown")}

\* One payload of every method, for the payloads that do not decode.
OneOfEach ==
    {InitializeJson(1), DidOpenJson("u1", <<"A">>), DidChangeJson("u1", <<<<"A">>>>),
     HoverJson(1, "u1", 0, 1), OtherJson("shutdown")}

DispatchInputs ==
    WellFormedJson
    \cup {NotJson}
    \cup {Without(j, m) : j \in OneOfEach, m \in Envelope}
    \cup {BadParams(j) : j \in OneOfEach}

\* The map with the entry for key set to value.
Inserted(fls, key, value) ==
    [u \in DOMAIN fls \cup {key} |-> IF u = key THEN value ELSE fls[u]]

\* The document FileState::new builds from a text that validates.
DocumentOf(text) ==
    [tree |-> FileState_new(text).tree, char_count |-> FileState_new(text).char_count]

\* The index of the last text of the list that validates, or 0.
LastValid(texts) ==
    LET v == {i \in 1..Len(texts) : FileState_new(texts[i]).some}
    IN  IF v = {} THEN 0 ELSE CHOOSE i \in v : \A j \in v : j <= i

\* The texts a payload asks to store, in order.
TextsSent(json) ==
    IF ~DecodesAsDocNotification(json) THEN <<>>
    ELSE IF json.method = "textDocument/didOpen" THEN <<json.text>>
    ELSE IF json.method = "textDocument/didChange" THEN json.changes
    ELSE <<>>

\* The ghost accepted after a payload was handled.
AcceptedAfter(acc, json) ==
    LET texts == TextsSent(json)
    IN  IF LastValid(texts) = 0 THEN acc
        ELSE Inserted(acc, json.uri, texts[LastValid(texts)])

InitDispatch ==
    /\ overflow_checks \in BOOLEAN
    /\ stdin = <<>>
    /\ whole = <<>>
    /\ data = <<>>
    /\ files = NoFiles
    /\ stdout = <<>>
    /\ pc = "run"
    /\ ret = [op |-> "new", json |-> NotJson, result |-> "", out |-> <<>>,
              modify_success |-> FALSE, files_before |-> NoFiles]
    /\ nwrites = 0
    /\ npops = 0
    /\ pops = <<>>
    /\ nhandled = 0
    /\ accepted = NoFiles
    /\ dispatched = <<>>

\* handle_message(message, &mut editor_state, &mut logger)
Handle(json) ==
    /\ pc = "run"
    /\ nhandled < MaxMsgs
    /\ LET h == handle_message(json, files, overflow_checks)
       IN  /\ files' = h.files
           /\ stdout' = stdout \o h.out
           /\ pc' = IF h.result = "panic" THEN "panic" ELSE "run"
           /\ ret' = [op |-> "handle_message", json |-> json, result |-> h.result,
                      out |-> h.out, modify_success |-> h.modify_success,
                      files_before |-> files]
    /\ nhandled' = nhandled + 1
    /\ accepted' = AcceptedAfter(accepted, json)
    /\ UNCHANGED <<overflow_checks, readerVars, dispatched>>

NextDispatch == \E json \in DispatchInputs : Handle(json)

SpecDispatch == InitDispatch /\ [][NextDispatch]_vars

-----------------------------------------------------------------------------
(* Editor-state claims *)

IsHandled(method) == ret.op = "handle_message" /\ ret.json.method = method

\* C5: a didOpen whose text fails FileState::new makes modify_file return
\* false and leaves the whole map as it was; one whose text validates makes it
\* return true and sets the entry of its URI to the new document, every other
\* entry unchanged.
C5_RejectionPreservesState ==
    (IsHandled("textDocument/didOpen") /\ DecodesAsDocNotification(ret.json))
        => IF FileState_new(ret.json.text).some
           THEN /\ ret.modify_success
                /\ files = Inserted(ret.files_before, ret.json.uri,
                                    DocumentOf(ret.json.text))
           ELSE /\ ~ret.modify_success
                /\ files = ret.files_before

\* An invalid text was sent for a URI that had a document, which is still there.
C5_Witness ==
    /\ IsHandled("textDocument/didOpen")
    /\ ret.json = DidOpenJson("u1", WideSecondLineText)
    /\ "u1" \in DOMAIN ret.files_before
    /\ files["u1"] = DocumentOf(TestFilestateText)
    /\ ~ret.modify_success

\* C6: after a didChange the document of its URI is the one built from the last
\* change of the list that validates, and what it was before when none does: a
\* later invalid change does not roll back an earlier valid one.
C6_LastValidChangeWins ==
    (IsHandled("textDocument/didChange") /\ DecodesAsDocNotification(ret.json))
        => LET k == LastValid(ret.json.changes)
           IN  files = IF k = 0 THEN ret.files_before
                       ELSE Inserted(ret.files_before, ret.json.uri,
                                     DocumentOf(ret.json.changes[k]))

\* A valid change followed by an invalid one replaced the earlier document.
C6_Witness ==
    /\ IsHandled("textDocument/didChange")
    /\ ret.json = DidChangeJson("u1", <<TestFilestateText, WideSecondLineText>>)
    /\ "u1" \in DOMAIN ret.files_before
    /\ ret.files_before["u1"] = DocumentOf(<<"A">>)
    /\ files["u1"] = DocumentOf(TestFilestateText)

\* C7: every document of the map was built from a text that validated, the
\* most recent text sent for its URI that did; no other document is stored.
C7_StoredDocumentsValidated ==
    /\ DOMAIN files = DOMAIN accepted
    /\ \A u \in DOMAIN files :
        /\ FileState_new(accepted[u]).some
        /\ files[u] = DocumentOf(accepted[u])

\* A didChange whose last change is invalid was handled and its URI has a document.
C7_Witness ==
    /\ IsHandled("textDocument/didChange")
    /\ Len(ret.json.changes) = 2
    /\ ~FileState_new(ret.json.changes[2]).some
    /\ ret.json.uri \in DOMAIN ret.files_before
    /\ accepted[ret.json.uri] = <<"A">>
    /\ files[ret.json.uri] = DocumentOf(<<"A">>)

-----------------------------------------------------------------------------
(* Hover claims *)

\* A hover request that decoded, for a URI that had a document.
HoverOnDocument ==
    /\ IsHandled("textDocument/hover")
    /\ DecodesAsRequest(ret.json)
    /\ ret.json.uri \in DOMAIN ret.files_before

\* C9: a hover request with an odd character, for a stored document with
\* char_count N and at any line from 0 up, completes and emits one response whose
\* contents is "Character count: N".
C9_OddCharacterAnswersCharCount ==
    (HoverOnDocument /\ ret.json.character % 2 = 1 /\ ret.json.line >= 0)
        => /\ ret.result = "ok"
           /\ ret.out = <<HoverResponse(ret.json.id,
                            CharacterCountMsg(ret.files_before[ret.json.uri].char_count))>>

\* C10: a hover request with an even character on a stored document, at a
\* position whose index 2^line - 1 + character/2 fits usize, always emits a
\* response: "Parent: L" when parent(index) is present, and otherwise (the
\* root, or an index out of range) the text that names the index and its
\* computed parent index; it never fails.
C10_EvenCharacterAlwaysAnswers ==
    (/\ HoverOnDocument
     /\ ret.json.character % 2 = 0 /\ ret.json.character >= 0
     /\ ret.json.line >= 0 /\ ret.json.line < UsizeBits)
        => LET fs == ret.files_before[ret.json.uri]
               index == 2^ret.json.line - 1 + ret.json.character \div 2
               parent == FileState_parent(fs, index)
           IN  /\ ret.result = "ok"
               /\ Len(ret.out) = 1
               /\ ret.out[1].id = ret.json.id
               /\ parent # NoLabel => ret.out[1].result.contents = ParentMsg(parent)
               /\ parent = NoLabel =>
                    \E p \in 0..UsizeMax :
                        ret.out[1].result.contents = CouldNotFindMsg(index, p)

\* C25: for a hover with an even character on a stored document, with index
\* the usize value of 2^line - 1 + character/2, a response says "Parent: L"
\* exactly when index > 0 and (index - 1) / 2 is inside the node sequence, L
\* being the node there, whether or not a node exists at index and whether or
\* not character lies within the line; and when that slot exists and the index
\* computation fits usize, the response is sent.
C25_EvenCharacterParentSlot ==
    (HoverOnDocument /\ (ret.json.character % (UsizeMax + 1)) % 2 = 0)
        => LET tree == ret.files_before[ret.json.uri].tree
               line == ret.json.line
               half == (ret.json.character % (UsizeMax + 1)) \div 2
               in_range == line >= 0 /\ line < UsizeBits
               fits == in_range /\ 2^line - 1 + half <= UsizeMax
               index == ((IF in_range THEN 2^line ELSE 0) - 1 + half) % (UsizeMax + 1)
               slot == index > 0 /\ (index - 1) \div 2 < Len(tree)
           IN  /\ (ret.result = "ok" /\ slot)
                    => ret.out = <<HoverResponse(ret.json.id,
                                     ParentMsg(tree[(index - 1) \div 2 + 1]))>>
               /\ (ret.result = "ok" /\ ~slot)
                    => /\ Len(ret.out) = 1
                       /\ SubSeq(ret.out[1].result.contents, 1, 8)
                            # <<"P", "a", "r", "e", "n", "t", ":", " ">>
               /\ (fits /\ slot) => ret.result = "ok"

\* A hover at line 1, character 0 of the one-node document "A" was answered
\* "Parent: A": index 1 holds no node, its parent slot 0 does.
C25_Witness ==
    /\ IsHandled("textDocument/hover")
    /\ ret.json = HoverJson(1, "u1", 1, 0)
    /\ "u1" \in DOMAIN ret.files_before
    /\ ret.files_before["u1"] = DocumentOf(<<"A">>)
    /\ ret.out = <<HoverResponse(1, ParentMsg("A"))>>

-----------------------------------------------------------------------------
(* Dispatcher claims *)

\* C11: a hover request that decodes, for a URI the map has no document for,
\* returns Err to the caller, writes no response and leaves the map as it was,
\* whatever the position it asks about.
C11_HoverWithoutDocumentFails ==
    (/\ IsHandled("textDocument/hover")
     /\ ret.json.valid /\ ret.json.has = Envelope /\ ret.json.params_ok
     /\ ret.json.uri \notin DOMAIN ret.files_before)
        => /\ ret.result = "err"
           /\ ret.out = <<>>
           /\ files = ret.files_before

\* A hover for "u2" at a line whose power overflows failed while only "u1" had a document.
C11_Witness ==
    /\ IsHandled("textDocument/hover")
    /\ ret.json = HoverJson(1, "u2", UsizeBits, 0)
    /\ DOMAIN ret.files_before = {"u1"}
    /\ ret.result = "err"
    /\ stdout = <<>>

\* C12: every handle_message call that returns Ok(()) for an initialize or a
\* hover request appends exactly one response to the output, with jsonrpc "2.0"
\* and the id of that request, after the responses written before it; every
\* other call (didOpen, didChange, an unrecognized method, a call that fails)
\* writes nothing. The output is therefore the responses of the answered
\* requests, in the order of the requests.
C12_ResponseCorrelation ==
    [][ret'.op = "handle_message" =>
        IF ret'.result = "ok"
           /\ ret'.json.method \in {"initialize", "textDocument/hover"}
        THEN /\ Len(stdout') = Len(stdout) + 1
             /\ SubSeq(stdout', 1, Len(stdout)) = stdout
             /\ stdout'[Len(stdout')].jsonrpc = "2.0"
             /\ stdout'[Len(stdout')].id = ret'.json.id
        ELSE stdout' = stdout]_vars

\* Request 2 then request 1 were answered, in that order.
C12_Witness ==
    /\ Len(stdout) = 2
    /\ stdout[1].id = 2
    /\ stdout[2].id = 1
    /\ IsHandled("initialize")

\* C13: the map changes only in a call for a didOpen or didChange whose payload
\* decoded and one of whose texts validated. A payload that fails to decode,
\* as the envelope or as the schema of its method, makes handle_message return
\* Err and leaves the map unchanged; an initialize request, a hover request and
\* a payload with an unrecognized method leave it unchanged too.
C13_OnlyValidatedTextChangesState ==
    ret.op = "handle_message" =>
        LET j == ret.json
            envelope_ok == j.valid /\ {"jsonrpc", "method"} \subseteq j.has
            is_doc == j.method \in {"textDocument/didOpen", "textDocument/didChange"}
            is_req == j.method \in {"initialize", "textDocument/hover"}
            decode_fails ==
                \/ ~envelope_ok
                \/ is_doc /\ ~("params" \in j.has /\ j.params_ok)
                \/ is_req /\ ~({"id", "params"} \subseteq j.has /\ j.params_ok)
            texts == IF j.method = "textDocument/didOpen" THEN <<j.text>> ELSE j.changes
        IN  /\ decode_fails => (ret.result = "err" /\ files = ret.files_before)
            /\ ~is_doc => files = ret.files_before
            /\ files # ret.files_before =>
                    /\ is_doc /\ ~decode_fails
                    /\ \E i \in 1..Len(texts) : FileState_new(texts[i]).some

\* A didOpen with a valid text in params of the wrong shape failed and the
\* document stored before is still the only one.
C13_Witness ==
    /\ ret.op = "handle_message"
    /\ ret.json = BadParams(DidOpenJson("u1", <<"A">>))
    /\ ret.result = "err"
    /\ DOMAIN files = {"u1"}
    /\ files["u1"] = DocumentOf(TestFilestateText)

-----------------------------------------------------------------------------
(* main: the read loop over the input source *)

\* let mut buff = [0; 512]
BuffSize == 512

(***************************************************************************)
(* The JSON texts of the read loop.  The text "{k}" stands for the JSON     *)
(* text of the k-th payload of WirePayloads: serde_json::from_str maps it   *)
(* to that payload, and every other text to a syntax error.                 *)
(***************************************************************************)
WirePayloads ==
    <<DidOpenJson("u1", TestFilestateText),
      HoverJson(1, "u1", 1, 0),
      InitializeJson(2),
      DidOpenJson("u1", WideSecondLineText),
      BadParams(HoverJson(2, "u1", 1, 0))>>

WireText(k) == <<"{", Digits[k + 1], "}">>

\* serde_json::from_str on a payload
JsonFromString(message) ==
    IF \E k \in 1..Len(WirePayloads) : message = WireText(k)
    THEN WirePayloads[CHOOSE k \in 1..Len(WirePayloads) : message = WireText(k)]
    ELSE NotJson

\* The payloads the inputs of the read loop are framed from; "x" is no JSON.
StreamPayloads == {WireText(k) : k \in 1..Len(WirePayloads)} \cup {<<"x">>}

RECURSIVE EncodeAll(_)
EncodeAll(payloads) ==
    IF payloads = <<>> THEN <<>>
    ELSE encode_message(Head(payloads)) \o EncodeAll(Tail(payloads))

\* The inputs that are framed messages, one after the other, and nothing else.
FramedInputs ==
    {AsBytes(EncodeAll(ps)) : ps \in SeqsUpTo(StreamPayloads, MaxStreamMsgs)}

\* The inputs that start with a header that is not a Content-Length header.
BadHeaderInputs ==
    {AsBytes(<<"A", "B", "C", " ">> \o Separator \o encode_message(WireText(1))),
     AsBytes(ContentLengthPrefix \o <<"x">> \o Separator \o encode_message(WireText(1)))}

Init ==
    /\ overflow_checks \in BOOLEAN
    /\ stdin \in FramedInputs \cup BadHeaderInputs
    /\ whole = stdin
    /\ data = <<>>
    /\ files = NoFiles
    /\ stdout = <<>>
    /\ pc = "run"
    /\ ret = [op |-> "new", kind |-> "", content |-> NoContent, result |-> ""]
    /\ nwrites = 0
    /\ npops = 0
    /\ pops = <<>>
    /\ nhandled = 0
    /\ accepted = NoFiles
    /\ dispatched = <<>>

\* One iteration of the loop of main: handle.read returns n > 0 bytes, they are
\* written to the BufferedReader, pop_message is called once, and what it
\* returned is handled.
MainIteration(n) ==
    /\ pc = "run"
    /\ n \in 1..Min(Len(stdin), BuffSize)
    /\ stdin' = SubSeq(stdin, n + 1, Len(stdin))
    /\ LET res == pop_message(BufferedReader_write(data, SubSeq(stdin, 1, n)))
           json == JsonFromString(res.content)
           h == handle_message(json, files, overflow_checks)
       IN  /\ data' = res.data
           /\ IF res.kind = "some"
              THEN /\ files' = h.files
                   /\ stdout' = stdout \o h.out
                   /\ nhandled' = nhandled + 1
                   /\ accepted' = AcceptedAfter(accepted, json)
                   /\ dispatched' = Append(dispatched, res.content)
                   /\ pc' = IF h.result = "panic" THEN "panic" ELSE "run"
                   /\ ret' = [op |-> "iteration", kind |-> res.kind,
                              content |-> res.content, result |-> h.result]
              ELSE /\ UNCHANGED <<files, stdout, nhandled, accepted, dispatched>>
                   /\ pc' = IF res.kind = "panic" THEN "panic" ELSE "run"
                   /\ ret' = [op |-> "iteration", kind |-> res.kind,
                              content |-> NoContent, result |-> ""]
    /\ UNCHANGED <<overflow_checks, whole, nwrites, npops, pops>>

\* handle.read returns 0 at the end of the input: the loop breaks and main returns.
MainEndOfInput ==
    /\ pc = "run"
    /\ stdin = <<>>
    /\ pc' = "done"
    /\ ret' = [op |-> "eof", kind |-> "", content |-> NoContent, result |-> ""]
    /\ UNCHANGED <<overflow_checks, readerVars, editorVars>>

Next ==
    \/ \E n \in 1..Len(stdin) : MainIteration(n)
    \/ MainEndOfInput

Spec == Init /\ [][Next]_vars

-----------------------------------------------------------------------------
(* Read-loop claims *)

\* The payloads of the framed messages a string starts with, each message
\* ending where its Content-Length says.
RECURSIVE FramedPayloads(_)
FramedPayloads(s) ==
    LET r == decode_message(s)
    IN  IF r.kind # "some" THEN <<>>
        ELSE <<r.content>>
                \o FramedPayloads(SubSeq(s, Len(HeaderOf(s)) + 4 + Len(r.content) + 1,
                                         Len(s)))

\* C4: when the input is a sequence of framed messages, the read loop has, at
\* the end of the input, handed every message to handle_message exactly once
\* and in arrival order, whatever the chunks the input arrived in.
C4_EveryMessageDispatchedOnce ==
    (pc = "done" /\ whole \in FramedInputs)
        => dispatched = FramedPayloads(FromUtf8Lossy(whole))

\* The payload fails to decode: it is no JSON, lacks a member of the envelope
\* its method requires, or its params do not fit the schema of its method.
FailsToDecode(json) ==
    \/ ~json.valid
    \/ ~({"jsonrpc", "method"} \subseteq json.has)
    \/ /\ json.method \in {"textDocument/didOpen", "textDocument/didChange"}
       /\ ~("params" \in json.has /\ json.params_ok)
    \/ /\ json.method \in {"initialize", "textDocument/hover"}
       /\ ~({"id", "params"} \subseteq json.has /\ json.params_ok)

\* C18: when the input is a framed message whose payload fails to decode,
\* followed by a framed message whose payload decodes, the read loop has, at
\* the end of the input, dispatched both in order; the first had no effect,
\* and the map and the output are those the second message alone produces.
C18_DecodeErrorDoesNotStop ==
    pc = "done" =>
        \A b \in StreamPayloads, g \in StreamPayloads :
            (/\ whole = AsBytes(encode_message(b) \o encode_message(g))
             /\ FailsToDecode(JsonFromString(b))
             /\ ~FailsToDecode(JsonFromString(g)))
                => /\ dispatched = <<b, g>>
                   /\ files = handle_message(JsonFromString(g), NoFiles,
                                             overflow_checks).files
                   /\ stdout = handle_message(JsonFromString(g), NoFiles,
                                              overflow_checks).out

\* The buffer holds a separator after a header that is no Content-Length header
\* for decode_message: it lacks the prefix, or its length does not parse.
StuckOnHeader(d) ==
    /\ FindSeparator(d) # 0
    /\ \/ ~StartsWith(HeaderOf(d), ContentLengthPrefix)
       \/ ParseUsize(TrimStartMatches(HeaderOf(d), ContentLengthPrefix)) = ParseFailed

\* Headers that are no Content-Length header.
BadHeaders == {<<"A", "B", "C", " ">>, ContentLengthPrefix \o <<"x">>}

\* Inputs that start with a bad header and its separator, in the place of the
\* first message of the stream, and go on with framed messages.
StuckInputs ==
    {AsBytes(h \o Separator \o EncodeAll(ps)) :
        h \in BadHeaders,
        ps \in SeqsUpTo({WireText(1), WireText(3)}, MaxStreamMsgs - 1)}

\* main started on an input with a bad header in it.
InitBadHeader ==
    /\ overflow_checks \in BOOLEAN
    /\ stdin \in StuckInputs
    /\ whole = stdin
    /\ data = <<>>
    /\ files = NoFiles
    /\ stdout = <<>>
    /\ pc = "run"
    /\ ret = [op |-> "new", kind |-> "", content |-> NoContent, result |-> ""]
    /\ nwrites = 0
    /\ npops = 0
    /\ pops = <<>>
    /\ nhandled = 0
    /\ accepted = NoFiles
    /\ dispatched = <<>>

SpecBadHeader == InitBadHeader /\ [][Next]_vars

\* The part of the input the loop has read so far.
Consumed == SubSeq(whole, 1, Len(whole) - Len(stdin))

\* C24: once the input read so far holds such a header before its first
\* separator, the reader is stuck: the buffer is never cleared and holds
\* everything read, the pop of every iteration returns an error, no message
\* is dispatched, stored or answered, and the loop neither aborts nor stops
\* before the end of the input.
C24_BadHeaderSticks ==
    StuckOnHeader(FromUtf8Lossy(Consumed))
        => /\ data = FromUtf8Lossy(Consumed)
           /\ ret.op = "iteration" => ret.kind = "err"
           /\ dispatched = <<>>
           /\ files = NoFiles
           /\ stdout = <<>>
           /\ pc \in {"run", "done"}
           /\ pc = "done" => stdin = <<>>

\* The input "ABC ", separator, a framed didOpen was read to its end: the loop
\* ended with the whole input still in the buffer and nothing dispatched.
C24_Witness ==
    /\ pc = "done"
    /\ whole = AsBytes(<<"A", "B", "C", " ">> \o Separator \o encode_message(WireText(1)))
    /\ data = FromUtf8Lossy(whole)
    /\ StuckOnHeader(data)
    /\ dispatched = <<>>
    /\ files = NoFiles

=============================================================================
